---- MODULE Spec2Model ----
(***************************************************************************)
(* A model of the JSON Schema renderer of optolith-tsjsonschemamd: the     *)
(* node-to-definition mapper, the statement-to-definition mapper and the   *)
(* document assembler.                                                     *)
(*                                                                         *)
(* JavaScript values are modelled as tagged records, so that `typeof`,     *)
(* `in`, `delete`, `undefined` and object key order keep their meaning:    *)
(*   undefined, JStr(s), JNum(n), JBool(b), JArr(seq), JObj(entries).      *)
(* A JavaScript object is a sequence of key/value entries with unique      *)
(* keys, in the order JavaScript enumerates them: the integer-like keys    *)
(* first, ascending, then the other keys in insertion order. A thrown      *)
(* Error is the value Throw(msg); every operator that can throw returns    *)
(* either its value or the Throw, and all callers hand a Throw on          *)
(* unchanged, as an uncaught exception does.                               *)
(* Functions that write to the console return [ret, log]: the returned     *)
(* value and the console.warn messages written while computing it.        *)
(***************************************************************************)
EXTENDS Integers, Sequences, FiniteSets, TLC

VARIABLES
  options,  \* the Required<JsonSchemaRendererOptions> the renderer was built with
  input,    \* the call to be made: the function and its arguments
  pc,       \* "ready" before the call, "done" after it has returned or thrown
  output,   \* what the call returned, or the Throw it ended with
  console   \* the console.warn messages written by the call

vars == <<options, input, pc, output, console>>

----------------------------------------------------------------------------
(* JavaScript values *)

undefined == [t |-> "undefined"]
JStr(s) == [t |-> "string", v |-> s]
JNum(n) == [t |-> "number", v |-> n]
JBool(b) == [t |-> "boolean", v |-> b]
JArr(s) == [t |-> "array", v |-> s]
JObj(es) == [t |-> "object", v |-> es]
Throw(msg) == [t |-> "throw", v |-> msg]

Entry(key, val) == [k |-> key, v |-> val]

IsThrow(x) == x.t = "throw"

\* The truthiness of a value, for `x ? a : b`.
Truthy(x) ==
  CASE x.t = "undefined" -> FALSE
    [] x.t = "boolean" -> x.v
    [] x.t = "string" -> x.v # ""
    [] x.t = "number" -> x.v # 0
    [] OTHER -> TRUE

HasKey(es, key) == \E i \in 1..Len(es) : es[i].k = key

KeyIndex(es, key) == CHOOSE i \in 1..Len(es) : es[i].k = key

\* The largest integer-like key, 2^32 - 2, in decimal.
MaxArrayIndex == "4294967294"

\* The characters of a string, each as a string of length one.
Chars(str) == [i \in 1..Len(str) |-> SubSeq(str, i, i)]

DecimalDigits == <<"0", "1", "2", "3", "4", "5", "6", "7", "8", "9">>

IsDigit(c) == \E d \in 1..10 : DecimalDigits[d] = c

DigitValue(c) == (CHOOSE d \in 1..10 : DecimalDigits[d] = c) - 1

\* One decimal numeral without leading zeros is below another: it is
\* shorter, or as long and smaller at the first digit where they differ.
IndexBelow(a, b) ==
  \/ Len(a) < Len(b)
  \/ /\ Len(a) = Len(b)
     /\ \E i \in 1..Len(a) :
          /\ DigitValue(Chars(a)[i]) < DigitValue(Chars(b)[i])
          /\ \A j \in 1..(i - 1) : Chars(a)[j] = Chars(b)[j]

\* A key is integer-like when it is the canonical decimal string of an
\* integer from 0 to 2^32 - 2: "0", "1", "10", "4294967294", but not "01",
\* "-1", "", "a" or "4294967295".
IsArrayIndex(key) ==
  /\ Len(key) >= 1
  /\ \A i \in 1..Len(key) : IsDigit(Chars(key)[i])
  /\ Len(key) = 1 \/ Chars(key)[1] # "0"
  /\ key = MaxArrayIndex \/ IndexBelow(key, MaxArrayIndex)

\* The number of entries that stay in front of a new integer-like key: the
\* integer-like keys below it.
IndexPlace(es, key) ==
  Len(SelectSeq(es, LAMBDA x : IsArrayIndex(x.k) /\ IndexBelow(x.k, key)))

\* obj[key] = val on an entry list: an existing key keeps its place, a new
\* integer-like key goes among the integer-like keys, which come first in
\* ascending order, and any other new key goes to the end.
Assign(es, e) ==
  IF HasKey(es, e.k)
    THEN [es EXCEPT ![KeyIndex(es, e.k)] = e]
    ELSE IF IsArrayIndex(e.k)
      THEN SubSeq(es, 1, IndexPlace(es, e.k)) \o <<e>>
             \o SubSeq(es, IndexPlace(es, e.k) + 1, Len(es))
      ELSE Append(es, e)

RECURSIVE AssignAll(_, _)
AssignAll(es, new) ==
  IF new = <<>> THEN es ELSE AssignAll(Assign(es, Head(new)), Tail(new))

\* Object.fromEntries(entries)
ObjectFromEntries(es) == JObj(AssignAll(<<>>, es))

\* An object literal { ...a, k: v, ...b }, given the entries it lists in order.
ObjectLiteral(es) == JObj(AssignAll(<<>>, es))

\* key in obj (with typeof obj === "object")
In(key, obj) == obj.t = "object" /\ HasKey(obj.v, key)

\* obj[key]
Get(obj, key) ==
  IF In(key, obj) THEN obj.v[KeyIndex(obj.v, key)].v ELSE undefined

\* delete obj[key]
Delete(obj, key) == JObj(SelectSeq(obj.v, LAMBDA e : e.k # key))

\* Object.keys(obj)
Keys(obj) == [i \in 1..Len(obj.v) |-> obj.v[i].k]

Returned(val, log) == [ret |-> val, log |-> log]

\* assertExhaustive of @optolith/helpers throws an Error with the message.
assertExhaustive(x, msg) == Throw(msg)

NotExhaustive == "The switch is not exhaustive."

----------------------------------------------------------------------------
(* Collaborators outside the renderer's file *)

IGNORE_ENV == "json-schema"

\* ignoreNode(node, env): the ignore predicate. A node carries the set of
\* environment tags for which the predicate answers true.
ignoreNode(node, env) == env \in node.ignoreIn

\* getRelativeExternalPath(node, file, ext): empty for a target in the same
\* file, else the relative path of the target's file with the extension.
getRelativeExternalPath(node, file, ext) ==
  IF node.externalFile = "" THEN "" ELSE node.externalFile \o ext

\* getFullyQualifiedNameAsPath(node, file): the slash-joined qualified name.
getFullyQualifiedNameAsPath(node, file) == node.name

\* getAliasedImportName(node, file): the name the target has in its own file
\* when it was imported under an alias, else undefined.
getAliasedImportName(node, file) == node.importAlias

\* isReferenceNode(node)
isReferenceNode(node) == node.kind = "Reference"

----------------------------------------------------------------------------
(* Dialects *)

JsonSchemaSpec == {"Draft_07", "Draft_2019_09", "Draft_2020_12"}

defsKey(spec) ==
  CASE spec = "Draft_07" -> JStr("definitions")
    [] spec \in {"Draft_2019_09", "Draft_2020_12"} -> JStr("$defs")
    [] OTHER -> assertExhaustive(spec, "invalid spec")

schemaUri(spec) ==
  CASE spec = "Draft_07" -> JStr("https://json-schema.org/draft-07/schema")
    [] spec = "Draft_2019_09" -> JStr("https://json-schema.org/draft/2019-09/schema")
    [] spec = "Draft_2020_12" -> JStr("https://json-schema.org/draft/2020-12/schema")
    [] OTHER -> assertExhaustive(spec, "invalid spec")

\* A bug: Draft_2019_09 is taken not to know unevaluatedProperties.
supportedOnlyByNewest(spec) ==
  CASE spec \in {"Draft_07", "Draft_2019_09"} -> JBool(FALSE)
    [] spec = "Draft_2020_12" -> JBool(TRUE)
    [] OTHER -> assertExhaustive(spec, "invalid spec")

\* A bug: Draft_07 is taken to know unevaluatedProperties.
supportedByAll(spec) ==
  CASE spec \in JsonSchemaSpec -> JBool(TRUE)
    [] OTHER -> assertExhaustive(spec, "invalid spec")

isUnresolvedPropertiesSupported(spec) ==
  CASE spec = "Draft_07" -> JBool(FALSE)
    [] spec \in {"Draft_2019_09", "Draft_2020_12"} -> JBool(TRUE)
    [] OTHER -> assertExhaustive(spec, "invalid spec")

----------------------------------------------------------------------------
(* Annotations *)

\* jsDoc?.tags[key]
Tag(jsDoc, key) ==
  IF jsDoc = undefined THEN undefined
  ELSE IF key \in DOMAIN jsDoc.tags THEN jsDoc.tags[key] ELSE undefined

\* jsDoc?.comment
Comment(jsDoc) == IF jsDoc = undefined THEN undefined ELSE jsDoc.comment

toAnnotations(jsDoc) ==
  << Entry("title", Tag(jsDoc, "title")),
     Entry("description", Comment(jsDoc)) >>

toDefault(jsDoc) ==
  IF Tag(jsDoc, "default") # undefined
    THEN << Entry("default", Tag(jsDoc, "default")) >>
    ELSE << >>

constraintsByType(type) ==
  CASE type = "number" ->
         <<"maximum", "minimum", "exclusiveMinimum", "exclusiveMaximum", "multipleOf">>
    [] type = "string" -> <<"minLength", "maxLength", "format", "pattern">>
    [] type = "object" -> <<"minProperties", "maxProperties">>
    [] type = "array" -> <<"minItems", "maxItems", "uniqueItems">>

RECURSIVE constraintEntries(_, _)
constraintEntries(jsDoc, keys) ==
  IF keys = <<>> THEN <<>>
  ELSE (IF Tag(jsDoc, Head(keys)) # undefined
          THEN << Entry(Head(keys), Tag(jsDoc, Head(keys))) >>
          ELSE <<>>)
       \o constraintEntries(jsDoc, Tail(keys))

\* The entries of the object toConstraints returns.
toConstraints(jsDoc, type) ==
  (ObjectFromEntries(
     IF jsDoc # undefined THEN constraintEntries(jsDoc, constraintsByType(type))
     ELSE <<>>)).v

\* ...(isReadOnly ? { readOnly: true } : undefined)
readOnlyEntries(isReadOnly) ==
  IF Truthy(isReadOnly) THEN << Entry("readOnly", JBool(TRUE)) >> ELSE <<>>

isStrictObject(def) == def.t = "object" /\ In("properties", def)

isReference(def) == def.t = "object" /\ In("$ref", def)

----------------------------------------------------------------------------
(* Node-to-definition mapper *)

WARNING ==
  "The requested JSON Schema spec does not support intersecting record types with \"additionalProperties\" set to false, which will likely result in unexpected validation errors. Consider switching to a newer JSON Schema spec or do not use intersection types."

\* shallowOptions = {}
NoShallowOptions == [isReadOnly |-> undefined]

RECURSIVE nodeToDefinition(_, _, _, _)
RECURSIVE mapNodeToDefinition(_, _, _)
RECURSIVE mapMembers(_, _, _)

\* children.map((child) => nodeToDefinition(child, file, options)): the
\* array of the definitions, or the first Throw, which ends the map.
mapNodeToDefinition(children, file, opts) ==
  IF children = <<>> THEN Returned(JArr(<<>>), <<>>)
  ELSE LET h == nodeToDefinition(Head(children), file, opts, NoShallowOptions)
       IN IF IsThrow(h.ret) THEN h
          ELSE LET r == mapNodeToDefinition(Tail(children), file, opts)
               IN IF IsThrow(r.ret) THEN Returned(r.ret, h.log \o r.log)
                  ELSE Returned(JArr(<<h.ret>> \o r.ret.v), h.log \o r.log)

\* members.map((member) => [member.identifier, nodeToDefinition(member.value,
\* file, options, { isReadOnly: member.isReadOnly })])
mapMembers(members, file, opts) ==
  IF members = <<>> THEN Returned(JArr(<<>>), <<>>)
  ELSE LET m == Head(members)
           h == nodeToDefinition(m.value, file, opts,
                                 [isReadOnly |-> JBool(m.isReadOnly)])
       IN IF IsThrow(h.ret) THEN h
          ELSE LET r == mapMembers(Tail(members), file, opts)
               IN IF IsThrow(r.ret) THEN Returned(r.ret, h.log \o r.log)
                  ELSE Returned(JArr(<<Entry(m.identifier, h.ret)>> \o r.ret.v),
                                h.log \o r.log)

\* node.members.filter((member) => member.isRequired).map((member) => member.identifier)
requiredOf(members) ==
  LET req == SelectSeq(members, LAMBDA m : m.isRequired)
  IN [i \in 1..Len(req) |-> JStr(req[i].identifier)]

recordToDefinition(node, file, opts, shallowOptions) ==
  LET kept == SelectSeq(node.members.v, LAMBDA m : ~ignoreNode(m, IGNORE_ENV))
      props == mapMembers(kept, file, opts)
  IN IF IsThrow(props.ret) THEN props
     ELSE Returned(
            ObjectLiteral(
              toAnnotations(node.jsDoc)
              \o << Entry("type", JStr("object")) >>
              \o toDefault(node.jsDoc)
              \o << Entry("properties", ObjectFromEntries(props.ret.v)),
                    Entry("required", JArr(requiredOf(node.members.v))) >>
              \o toConstraints(node.jsDoc, "object")
              \o readOnlyEntries(shallowOptions.isReadOnly)
              \o << Entry("additionalProperties", JBool(opts.allowAdditionalProperties)) >>),
            props.log)

\* A bug: the pattern form also puts the child under additionalProperties.
patternDictionaryWithChild(node, child, opts, shallowOptions) ==
  ObjectLiteral(
    toAnnotations(node.jsDoc)
    \o << Entry("type", JStr("object")) >>
    \o toDefault(node.jsDoc)
    \o << Entry("patternProperties", ObjectLiteral(<< Entry(node.pattern.v, child) >>)) >>
    \o toConstraints(node.jsDoc, "object")
    \o readOnlyEntries(shallowOptions.isReadOnly)
    \o << Entry("additionalProperties", child) >>)

\* if (node.pattern !== undefined) { return ... }
patternDictionary(node, child, opts, shallowOptions) ==
  ObjectLiteral(
    toAnnotations(node.jsDoc)
    \o << Entry("type", JStr("object")) >>
    \o toDefault(node.jsDoc)
    \o << Entry("patternProperties", ObjectLiteral(<< Entry(node.pattern.v, child) >>)) >>
    \o toConstraints(node.jsDoc, "object")
    \o readOnlyEntries(shallowOptions.isReadOnly)
    \o << Entry("additionalProperties", JBool(opts.allowAdditionalProperties)) >>)

\* else { return ... }
catchAllDictionary(node, child, opts, shallowOptions) ==
  ObjectLiteral(
    toAnnotations(node.jsDoc)
    \o << Entry("type", JStr("object")) >>
    \o toDefault(node.jsDoc)
    \o << Entry("additionalProperties", child) >>
    \o toConstraints(node.jsDoc, "object")
    \o readOnlyEntries(shallowOptions.isReadOnly))

dictionaryToDefinition(node, file, opts, shallowOptions) ==
  LET child == nodeToDefinition(node.children, file, opts, NoShallowOptions)
  IN IF IsThrow(child.ret) THEN child
     ELSE IF node.pattern # undefined
       THEN Returned(patternDictionary(node, child.ret, opts, shallowOptions), child.log)
       ELSE Returned(catchAllDictionary(node, child.ret, opts, shallowOptions), child.log)

\* A bug: the array hands its own shallowOptions on to its items.
arrayHandingOnReadOnly(node, file, opts, shallowOptions) ==
  LET child == nodeToDefinition(node.children, file, opts, shallowOptions)
  IN IF IsThrow(child.ret) THEN child
     ELSE Returned(
            ObjectLiteral(
              toAnnotations(node.jsDoc)
              \o << Entry("type", JStr("array")) >>
              \o toDefault(node.jsDoc)
              \o << Entry("items", child.ret) >>
              \o toConstraints(node.jsDoc, "array")
              \o readOnlyEntries(shallowOptions.isReadOnly)),
            child.log)

arrayToDefinition(node, file, opts, shallowOptions) ==
  LET child == nodeToDefinition(node.children, file, opts, NoShallowOptions)
  IN IF IsThrow(child.ret) THEN child
     ELSE Returned(
            ObjectLiteral(
              toAnnotations(node.jsDoc)
              \o << Entry("type", JStr("array")) >>
              \o toDefault(node.jsDoc)
              \o << Entry("items", child.ret) >>
              \o toConstraints(node.jsDoc, "array")
              \o readOnlyEntries(shallowOptions.isReadOnly)),
            child.log)

\* case JsonSchemaSpec.Draft_07: case JsonSchemaSpec.Draft_2019_09:
tuple07(node, file, opts, shallowOptions) ==
  LET items == mapNodeToDefinition(node.children.v, file, opts)
  IN IF IsThrow(items.ret) THEN items
     ELSE Returned(
            ObjectLiteral(
              toAnnotations(node.jsDoc)
              \o << Entry("type", JStr("array")),
                    Entry("items", items.ret) >>
              \o toDefault(node.jsDoc)
              \o << Entry("minItems", JNum(Len(node.children.v))),
                    Entry("maxItems", JNum(Len(node.children.v))),
                    Entry("additionalItems", JBool(FALSE)) >>
              \o readOnlyEntries(shallowOptions.isReadOnly)),
            items.log)

\* case JsonSchemaSpec.Draft_2020_12:
tuple202012(node, file, opts, shallowOptions) ==
  LET items == mapNodeToDefinition(node.children.v, file, opts)
  IN IF IsThrow(items.ret) THEN items
     ELSE Returned(
            ObjectLiteral(
              toAnnotations(node.jsDoc)
              \o << Entry("type", JStr("array")),
                    Entry("prefixItems", items.ret) >>
              \o toDefault(node.jsDoc)
              \o << Entry("minItems", JNum(Len(node.children.v))),
                    Entry("maxItems", JNum(Len(node.children.v))),
                    Entry("items", JBool(FALSE)) >>
              \o readOnlyEntries(shallowOptions.isReadOnly)),
            items.log)

\* A bug: the tuple is rendered in the older shape under every dialect.
tupleAlways07(node, file, opts, shallowOptions) ==
  IF opts.spec \in JsonSchemaSpec
    THEN tuple07(node, file, opts, shallowOptions)
    ELSE Returned(assertExhaustive(opts.spec, "invalid spec"), <<>>)

tupleToDefinition(node, file, opts, shallowOptions) ==
  CASE opts.spec \in {"Draft_07", "Draft_2019_09"} -> tuple07(node, file, opts, shallowOptions)
    [] opts.spec = "Draft_2020_12" -> tuple202012(node, file, opts, shallowOptions)
    [] OTHER -> Returned(assertExhaustive(opts.spec, "invalid spec"), <<>>)

unionToDefinition(node, file, opts, shallowOptions) ==
  LET oneOf == mapNodeToDefinition(node.children.v, file, opts)
  IN IF IsThrow(oneOf.ret) THEN oneOf
     ELSE Returned(
            ObjectLiteral(
              toAnnotations(node.jsDoc)
              \o << Entry("oneOf", oneOf.ret) >>
              \o toDefault(node.jsDoc)
              \o readOnlyEntries(shallowOptions.isReadOnly)),
            oneOf.log)

\* "additionalProperties" in e && typeof e.additionalProperties === "boolean"
\*   && delete e.additionalProperties
stripBooleanAdditionalProperties(e) ==
  IF In("additionalProperties", e) /\ Get(e, "additionalProperties").t = "boolean"
    THEN Delete(e, "additionalProperties")
    ELSE e

\* The entries of `base`, which holds the allOf array by reference: what the
\* forEach does to the array's elements shows in base.allOf.
intersectionBase(node, allOf, shallowOptions) ==
  toAnnotations(node.jsDoc)
  \o << Entry("allOf", JArr(allOf)) >>
  \o toDefault(node.jsDoc)
  \o readOnlyEntries(shallowOptions.isReadOnly)

\* A bug: unevaluatedProperties is given the negation of the option.
intersectionUpgradedNegated(node, allOf, opts, shallowOptions) ==
  ObjectLiteral(
    intersectionBase(node,
                     [i \in 1..Len(allOf) |-> stripBooleanAdditionalProperties(allOf[i])],
                     shallowOptions)
    \o << Entry("type", JStr("object")),
          Entry("unevaluatedProperties", JBool(~opts.allowAdditionalProperties)) >>)

\* allOf.forEach(...); return { ...base, type: "object", unevaluatedProperties }
intersectionUpgraded(node, allOf, opts, shallowOptions) ==
  ObjectLiteral(
    intersectionBase(node,
                     [i \in 1..Len(allOf) |-> stripBooleanAdditionalProperties(allOf[i])],
                     shallowOptions)
    \o << Entry("type", JStr("object")),
          Entry("unevaluatedProperties", JBool(opts.allowAdditionalProperties)) >>)

intersectionToDefinition(node, file, opts, shallowOptions) ==
  LET mapped == mapNodeToDefinition(node.children.v, file, opts)
  IN IF IsThrow(mapped.ret) THEN mapped
     ELSE LET allOf == mapped.ret.v
          IN IF \A i \in 1..Len(allOf) : isStrictObject(allOf[i]) \/ isReference(allOf[i])
               THEN LET supported == isUnresolvedPropertiesSupported(opts.spec)
                    IN IF IsThrow(supported) THEN Returned(supported, mapped.log)
                       ELSE IF supported.v
                         THEN Returned(intersectionUpgraded(node, allOf, opts, shallowOptions),
                                       mapped.log)
                         ELSE Returned(
                                ObjectLiteral(intersectionBase(node, allOf, shallowOptions)),
                                mapped.log \o <<WARNING>>)
               ELSE Returned(
                      ObjectLiteral(intersectionBase(node, allOf, shallowOptions)),
                      mapped.log)

literalToDefinition(node, file, opts, shallowOptions) ==
  Returned(
    ObjectLiteral(
      toAnnotations(node.jsDoc)
      \o << Entry("const", node.value) >>
      \o toDefault(node.jsDoc)
      \o readOnlyEntries(shallowOptions.isReadOnly)),
    <<>>)

\* alias ?? qualifiedName
Nullish(a, b) == IF a = undefined THEN b ELSE a.v

referenceToDefinition(node, file, opts, shallowOptions) ==
  LET externalFilePath == getRelativeExternalPath(node, file, ".schema.json")
      qualifiedName == getFullyQualifiedNameAsPath(node, file)
      key == defsKey(opts.spec)
  IN IF IsThrow(key) THEN Returned(key, <<>>)
     ELSE Returned(
            ObjectLiteral(
              toAnnotations(node.jsDoc)
              \o << Entry("$ref",
                          JStr(externalFilePath \o "#/" \o key.v \o "/"
                               \o Nullish(getAliasedImportName(node, file), qualifiedName))) >>
              \o toDefault(node.jsDoc)
              \o readOnlyEntries(shallowOptions.isReadOnly)),
            <<>>)

\* A token kind outside the three leaves the inner switch without a return
\* and falls through to the outer default.
tokenToDefinition(node, file, opts, shallowOptions) ==
  CASE node.token = "Number" ->
         Returned(
           ObjectLiteral(
             toAnnotations(node.jsDoc)
             \o << Entry("type", JStr(IF Truthy(Tag(node.jsDoc, "integer"))
                                        THEN "integer" ELSE "number")) >>
             \o toDefault(node.jsDoc)
             \o toConstraints(node.jsDoc, "number")
             \o readOnlyEntries(shallowOptions.isReadOnly)),
           <<>>)
    [] node.token = "String" ->
         Returned(
           ObjectLiteral(
             toAnnotations(node.jsDoc)
             \o << Entry("type", JStr("string")) >>
             \o toDefault(node.jsDoc)
             \o toConstraints(node.jsDoc, "string")
             \o readOnlyEntries(shallowOptions.isReadOnly)),
           <<>>)
    [] node.token = "Boolean" ->
         Returned(
           ObjectLiteral(
             toAnnotations(node.jsDoc)
             \o << Entry("type", JStr("boolean")) >>
             \o toDefault(node.jsDoc)
             \o readOnlyEntries(shallowOptions.isReadOnly)),
           <<>>)
    [] OTHER -> Returned(assertExhaustive(node, NotExhaustive), <<>>)

nodeToDefinition(node, file, opts, shallowOptions) ==
  CASE node.kind = "Record" -> recordToDefinition(node, file, opts, shallowOptions)
    [] node.kind = "Dictionary" -> dictionaryToDefinition(node, file, opts, shallowOptions)
    [] node.kind = "Array" -> arrayToDefinition(node, file, opts, shallowOptions)
    [] node.kind = "Tuple" -> tupleToDefinition(node, file, opts, shallowOptions)
    [] node.kind = "Union" -> unionToDefinition(node, file, opts, shallowOptions)
    [] node.kind = "Intersection" -> intersectionToDefinition(node, file, opts, shallowOptions)
    [] node.kind = "Literal" -> literalToDefinition(node, file, opts, shallowOptions)
    [] node.kind = "Reference" -> referenceToDefinition(node, file, opts, shallowOptions)
    [] node.kind = "Token" -> tokenToDefinition(node, file, opts, shallowOptions)
    [] OTHER -> Returned(assertExhaustive(node, NotExhaustive), <<>>)

----------------------------------------------------------------------------
(* Statement-to-definition mapper *)

RECURSIVE statementToDefinition(_, _, _, _)
RECURSIVE mapEntries(_, _, _)

\* entries.map(([key, node]) => [key, statementToDefinition(node, file, options)])
mapEntries(es, file, opts) ==
  IF es = <<>> THEN Returned(JArr(<<>>), <<>>)
  ELSE LET h == statementToDefinition(Head(es).v, file, opts, NoShallowOptions)
       IN IF IsThrow(h.ret) THEN h
          ELSE LET r == mapEntries(Tail(es), file, opts)
               IN IF IsThrow(r.ret) THEN Returned(r.ret, h.log \o r.log)
                  ELSE Returned(JArr(<<Entry(Head(es).k, h.ret)>> \o r.ret.v),
                                h.log \o r.log)

\* A bug: the ignore directive of a type definition is not looked at.
typeDefinitionNeverIgnored(node, file, opts, shallowOptions) ==
  nodeToDefinition(node.definition, file, opts, NoShallowOptions)

typeDefinitionToDefinition(node, file, opts, shallowOptions) ==
  IF ignoreNode(node, IGNORE_ENV)
    THEN Returned(undefined, <<>>)
    ELSE nodeToDefinition(node.definition, file, opts, NoShallowOptions)

enumerationToDefinition(node, file, opts, shallowOptions) ==
  IF ignoreNode(node, IGNORE_ENV)
    THEN Returned(undefined, <<>>)
    ELSE Returned(
           ObjectLiteral(
             toAnnotations(node.jsDoc)
             \o << Entry("enum",
                         JArr([i \in 1..Len(node.children.v) |-> node.children.v[i].value])) >>
             \o toDefault(node.jsDoc)
             \o readOnlyEntries(shallowOptions.isReadOnly)),
           <<>>)

groupToDefinition(node, file, opts, shallowOptions) ==
  IF ignoreNode(node, IGNORE_ENV)
    THEN Returned(undefined, <<>>)
    ELSE LET mapped == mapEntries(node.children.v, file, opts)
         IN IF IsThrow(mapped.ret) THEN mapped
            ELSE Returned(ObjectFromEntries(mapped.ret.v), mapped.log)

\* A bug: a statement of an unknown kind is skipped, not refused.
statementToDefinitionSkipping(node, file, opts, shallowOptions) ==
  CASE node.kind = "TypeDefinition" -> typeDefinitionToDefinition(node, file, opts, shallowOptions)
    [] node.kind = "ExportAssignment" -> Returned(undefined, <<>>)
    [] node.kind = "Enumeration" -> enumerationToDefinition(node, file, opts, shallowOptions)
    [] node.kind = "Group" -> groupToDefinition(node, file, opts, shallowOptions)
    [] OTHER -> Returned(undefined, <<>>)

statementToDefinition(node, file, opts, shallowOptions) ==
  CASE node.kind = "TypeDefinition" -> typeDefinitionToDefinition(node, file, opts, shallowOptions)
    [] node.kind = "ExportAssignment" -> Returned(undefined, <<>>)
    [] node.kind = "Enumeration" -> enumerationToDefinition(node, file, opts, shallowOptions)
    [] node.kind = "Group" -> groupToDefinition(node, file, opts, shallowOptions)
    [] OTHER -> Returned(assertExhaustive(node, "invalid statement"), <<>>)

----------------------------------------------------------------------------
(* Document assembler *)

RECURSIVE Join(_, _)
Join(segments, glue) ==
  IF segments = <<>> THEN ""
  ELSE IF Len(segments) = 1 THEN Head(segments)
  ELSE Head(segments) \o glue \o Join(Tail(segments), glue)

\* "/" + path.split(sep).join("/"), for a path given as what split(sep) yields.
toForwardSlashAbsolutePath(path) == "/" \o Join(path, "/")

\* file.children.find((node) => node.name === "default" &&
\*   node.kind === NodeKind.ExportAssignment)
findDefaultExport(children) ==
  LET hits == SelectSeq(children,
                LAMBDA n : n.name = "default" /\ n.kind = "ExportAssignment")
  IN IF hits = <<>> THEN undefined ELSE Head(hits)

\* The part of getMainRef after the main tag: the default export's reference.
defaultExportRef(file, spec) ==
  LET defaultExport == findDefaultExport(file.children.v)
  IN IF defaultExport # undefined /\ isReferenceNode(defaultExport.expression)
       THEN LET externalFilePath ==
                  getRelativeExternalPath(defaultExport.expression, file, ".schema.json")
                qualifiedName ==
                  getFullyQualifiedNameAsPath(defaultExport.expression, file)
                key == defsKey(spec)
            IN IF IsThrow(key) THEN key
               ELSE JStr(externalFilePath \o "#/" \o key.v \o "/" \o qualifiedName)
       ELSE undefined

\* A bug: the default export is looked at first, the main tag after it.
getMainRefExportFirst(file, spec) ==
  IF defaultExportRef(file, spec) # undefined
    THEN defaultExportRef(file, spec)
    ELSE IF Tag(file.jsDoc, "main") # undefined
      THEN LET key == defsKey(spec)
           IN IF IsThrow(key) THEN key
              ELSE JStr("#/" \o key.v \o "/" \o Tag(file.jsDoc, "main").v)
      ELSE undefined

getMainRef(file, spec) ==
  IF Tag(file.jsDoc, "main") # undefined
    THEN LET key == defsKey(spec)
         IN IF IsThrow(key) THEN key
            ELSE JStr("#/" \o key.v \o "/" \o Tag(file.jsDoc, "main").v)
    ELSE defaultExportRef(file, spec)

RECURSIVE mapStatements(_, _, _)
\* file.children.map((node) => [node.name, statementToDefinition(node, file, options)])
mapStatements(children, file, opts) ==
  IF children = <<>> THEN Returned(JArr(<<>>), <<>>)
  ELSE LET h == statementToDefinition(Head(children), file, opts, NoShallowOptions)
       IN IF IsThrow(h.ret) THEN h
          ELSE LET r == mapStatements(Tail(children), file, opts)
               IN IF IsThrow(r.ret) THEN Returned(r.ret, h.log \o r.log)
                  ELSE Returned(JArr(<<Entry(Head(children).name, h.ret)>> \o r.ret.v),
                                h.log \o r.log)

JNull == [t |-> "null"]

RECURSIVE JSONstringify(_)
\* JSON.stringify(value, undefined, 2), as the JSON value the text denotes:
\* an object loses the keys whose value is undefined, an array holds null
\* in the place of undefined. The line ends (EOL) carry no content.
JSONstringify(x) ==
  CASE x.t = "object" ->
         LET kept == SelectSeq(x.v, LAMBDA e : e.v # undefined)
         IN JObj([i \in 1..Len(kept) |-> Entry(kept[i].k, JSONstringify(kept[i].v))])
    [] x.t = "array" ->
         JArr([i \in 1..Len(x.v) |->
                 IF x.v[i] = undefined THEN JNull ELSE JSONstringify(x.v[i])])
    [] OTHER -> x

astToJsonSchema(opts, file, ctx) ==
  LET uri == schemaUri(opts.spec)
      ref == getMainRef(file, opts.spec)
      key == defsKey(opts.spec)
      mapped == mapStatements(file.children.v, file, opts)
  IN IF IsThrow(uri) THEN Returned(uri, <<>>)
     ELSE IF IsThrow(ref) THEN Returned(ref, <<>>)
     ELSE IF IsThrow(key) THEN Returned(key, <<>>)
     ELSE IF IsThrow(mapped.ret) THEN mapped
     ELSE Returned(
            JSONstringify(
              ObjectLiteral(
                << Entry("$schema", uri),
                   Entry("$id", JStr(toForwardSlashAbsolutePath(ctx.relativePath))),
                   Entry("$ref", ref),
                   Entry(key.v,
                         ObjectFromEntries(
                           SelectSeq(mapped.ret.v, LAMBDA e : e.v # undefined))) >>)),
            mapped.log)

\* jsonSchemaRenderer({ spec = Draft_2020_12, allowAdditionalProperties = false })
jsonSchemaRenderer(userOptions) ==
  [spec |-> IF userOptions.spec = undefined THEN "Draft_2020_12" ELSE userOptions.spec.v,
   allowAdditionalProperties |->
     IF userOptions.allowAdditionalProperties = undefined THEN FALSE
     ELSE userOptions.allowAdditionalProperties.v]

----------------------------------------------------------------------------
(* The inputs: AST nodes, statements and files *)

MaxChildren == 2    \* children of a tuple, union or intersection
MaxMembers == 2     \* members of a record
MaxStatements == 2  \* statements of a file or of a group

SeqsUpTo(S, n) == UNION { [1..k -> S] : k \in 0..n }

Token(token, jsDoc) == [kind |-> "Token", token |-> token, jsDoc |-> jsDoc]
Literal(value) == [kind |-> "Literal", value |-> value, jsDoc |-> undefined]
Reference(name, externalFile, importAlias) ==
  [kind |-> "Reference", name |-> name, externalFile |-> externalFile,
   importAlias |-> importAlias, jsDoc |-> undefined]
ArrayNode(child, jsDoc) == [kind |-> "Array", children |-> child, jsDoc |-> jsDoc]
DictionaryNode(child, pattern) ==
  [kind |-> "Dictionary", children |-> child, pattern |-> pattern, jsDoc |-> undefined]
ListNode(kind, children) == [kind |-> kind, children |-> JArr(children), jsDoc |-> undefined]
RecordNode(members, jsDoc) == [kind |-> "Record", members |-> JArr(members), jsDoc |-> jsDoc]
Member(identifier, value, isRequired, isReadOnly, ignoreIn) ==
  [identifier |-> identifier, value |-> value, isRequired |-> isRequired,
   isReadOnly |-> isReadOnly, ignoreIn |-> ignoreIn]

DocTitled ==
  [comment |-> JStr("A comment."), tags |-> [title |-> JStr("Title"), default |-> JStr("d")]]
DocInteger ==
  [comment |-> undefined, tags |-> [integer |-> JBool(TRUE), minimum |-> JNum(0)]]
DocObject == [comment |-> undefined, tags |-> [minProperties |-> JNum(1)]]
DocArray ==
  [comment |-> undefined, tags |-> [minItems |-> JNum(1), uniqueItems |-> JBool(TRUE)]]

TokenString == Token("String", undefined)
TokenNumber == Token("Number", undefined)
TokenBoolean == Token("Boolean", undefined)
\* a token kind outside TokenKind
TokenSymbol == Token("Symbol", undefined)
\* a node kind outside ChildNode
UnknownNode == [kind |-> "Unknown", jsDoc |-> undefined]

RefLocal == Reference("A", "", undefined)
RefQualified == Reference("Ns/B", "", undefined)
RefExternal == Reference("C", "../other", undefined)
\* import { Original as Local } from "../other"
RefAliased == Reference("Local", "../other", JStr("Original"))

Leaves ==
  { TokenString, Token("String", DocTitled), TokenNumber, Token("Number", DocInteger),
    TokenBoolean, TokenSymbol, Literal(JStr("x")), Literal(JBool(TRUE)),
    RefLocal, RefQualified, RefExternal, RefAliased, UnknownNode }

Identifiers == <<"a", "b", "c", "d">>

\* isRequired, isReadOnly, ignoreIn
MemberFlags ==
  { <<TRUE, FALSE, {}>>, <<FALSE, TRUE, {}>>,
    <<TRUE, FALSE, {"json-schema"}>>, <<FALSE, FALSE, {"markdown"}>> }

\* The records with up to n members, the i-th named Identifiers[i], of the
\* given values and flags.
Records(values, flags, n) ==
  { RecordNode([i \in 1..Len(c) |->
                  Member(Identifiers[i], c[i][1], c[i][2][1], c[i][2][2], c[i][2][3])],
               undefined) :
      c \in SeqsUpTo(values \X flags, n) }

\* Records whose members are named by integer-like identifiers, as the
\* properties `1` or `10` of a TypeScript interface are, with identifiers on
\* both sides of the limit and one with a leading zero.
IndexedIdentifiers ==
  { <<"b", "1">>, <<"1", "b">>, <<"10", "9">>, <<"1", "0">>, <<"b", "11">>,
    <<"100", "2">>, <<"zz", "4294967294">>, <<"4294967295", "3">>, <<"01", "1">> }

IndexedRecords ==
  { RecordNode(<<Member(ids[1], TokenString, f[1], f[2], f[3]),
                 Member(ids[2], TokenNumber, g[1], g[2], g[3])>>, undefined) :
      ids \in IndexedIdentifiers, f \in MemberFlags, g \in MemberFlags }

RecA == RecordNode(<<Member("a", TokenString, TRUE, FALSE, {})>>, undefined)
RecB ==
  RecordNode(<<Member("b", TokenNumber, FALSE, TRUE, {}),
               Member("c", TokenString, TRUE, FALSE, {"json-schema"})>>, DocObject)
ArrayOfString == ArrayNode(TokenString, DocArray)
DictOfString == DictionaryNode(TokenString, undefined)
RecAAndRefLocal == ListNode("Intersection", <<RecA, RefLocal>>)
RecAAndRecB == ListNode("Intersection", <<RecA, RecB>>)

\* The children of the nested tuples, unions and intersections.
Children ==
  { RecA, RecB, RefLocal, RefAliased, TokenString, ArrayOfString, DictOfString,
    RecAAndRefLocal, UnknownNode }

\* The values of the members of the nested records.
NestedValues == { RecB, ArrayOfString, RecAAndRefLocal, ListNode("Tuple", <<TokenString>>) }

Nodes ==
  Leaves
  \cup { ArrayNode(c, undefined) : c \in Leaves \cup Children }
  \cup { DictionaryNode(c, p) : c \in Leaves \cup Children, p \in {undefined, JStr("^[a-z]+$")} }
  \cup { ListNode(k, cs) : k \in {"Tuple", "Union", "Intersection"},
                           cs \in SeqsUpTo(Children, MaxChildren) }
  \cup Records({TokenString, RefLocal, UnknownNode}, MemberFlags, MaxMembers)
  \cup Records(NestedValues, {<<TRUE, FALSE, {}>>, <<FALSE, TRUE, {}>>}, MaxMembers)
  \cup IndexedRecords
  \cup { RecB, ArrayOfString }

TypeDefinition(name, definition, ignoreIn) ==
  [kind |-> "TypeDefinition", name |-> name, definition |-> definition,
   ignoreIn |-> ignoreIn, jsDoc |-> undefined]
ExportAssignment(name, expression) ==
  [kind |-> "ExportAssignment", name |-> name, expression |-> expression]
Enumeration(name, values, ignoreIn) ==
  [kind |-> "Enumeration", name |-> name,
   children |-> JArr([i \in 1..Len(values) |-> [value |-> values[i]]]),
   ignoreIn |-> ignoreIn, jsDoc |-> undefined]
Group(name, children, ignoreIn) ==
  [kind |-> "Group", name |-> name, children |-> JObj(children),
   ignoreIn |-> ignoreIn, jsDoc |-> undefined]
\* a statement kind outside StatementNode
UnknownStatement(name) == [kind |-> "Unknown", name |-> name]

StatementNames == <<"T1", "T2", "T3", "T4">>

\* The statements a group nests, for the key under which it nests them.
NestedStatements(name) ==
  { TypeDefinition(name, TokenString, {}),
    TypeDefinition(name, RecA, {"json-schema"}),
    Enumeration(name, <<JStr("x"), JNum(1)>>, {}),
    ExportAssignment(name, RefLocal),
    Group(name, <<Entry("Z", TypeDefinition("Z", TokenString, {"json-schema"}))>>, {}),
    Group(name, <<Entry("Z", TypeDefinition("Z", TokenNumber, {}))>>, {"json-schema"}),
    UnknownStatement(name) }

Groups(name) ==
  { Group(name, [i \in 1..Len(c) |-> Entry(StatementNames[i], c[i])], ig) :
      c \in { c \in SeqsUpTo(UNION { NestedStatements(n) : n \in {"T1", "T2", "T3"} },
                             MaxStatements) :
                \A i \in 1..Len(c) : c[i].name = StatementNames[i] },
      ig \in {{}, {"json-schema"}} }

\* The statements of the files of several statements.
Statements(name) ==
  { TypeDefinition(name, RecA, {}),
    TypeDefinition(name, TokenString, {"json-schema"}),
    TypeDefinition(name, RecAAndRefLocal, {"markdown"}),
    Enumeration(name, <<JStr("x"), JStr("y")>>, {}),
    Group(name, << Entry("X", TypeDefinition("X", TokenString, {})),
                   Entry("Y", TypeDefinition("Y", TokenString, {"json-schema"})) >>, {}),
    ExportAssignment("default", RefAliased),
    ExportAssignment("default", RefLocal),
    ExportAssignment("default", TokenString),
    UnknownStatement(name) }

\* The statements of the files of one statement.
SingleStatements ==
  { TypeDefinition("T1", n, ig) : n \in Children \cup { TokenSymbol, RecAAndRecB },
                                  ig \in {{}, {"json-schema"}, {"markdown"}} }
  \cup { Enumeration("T1", vs, ig) : vs \in { <<>>, <<JStr("x"), JStr("x")>> },
                                     ig \in {{}, {"json-schema"}} }
  \cup Groups("T1")
  \cup { ExportAssignment(n, e) : n \in {"default", "export="},
                                  e \in {RefLocal, RefQualified, RefExternal, RefAliased, RecA} }

IsDefaultExport(s) == s.kind = "ExportAssignment" /\ s.name = "default"

\* A module has at most one default export, and its statements have
\* distinct names: the i-th is named StatementNames[i].
StatementSeqs ==
  { c \in SeqsUpTo(UNION { Statements(n) : n \in {"T1", "T2", "T3"} }, MaxStatements) :
      /\ \A i \in 1..Len(c) : IsDefaultExport(c[i]) \/ c[i].name = StatementNames[i]
      /\ Cardinality({ i \in 1..Len(c) : IsDefaultExport(c[i]) }) <= 1 }

DocMain == [comment |-> undefined, tags |-> [main |-> JStr("T1")]]

RootNode(children, jsDoc) == [kind |-> "Root", children |-> JArr(children), jsDoc |-> jsDoc]

Files ==
  { RootNode(c, d) : c \in StatementSeqs \cup { <<s>> : s \in SingleStatements },
                     d \in {undefined, DocMain} }

EmptyFile == RootNode(<<>>, undefined)

Inputs ==
  { [op |-> "nodeToDefinition", node |-> n, file |-> EmptyFile,
     shallowOptions |-> [isReadOnly |-> ro]] :
      n \in Nodes, ro \in {undefined, JBool(TRUE)} }
  \cup { [op |-> "astToJsonSchema", file |-> f, ctx |-> [relativePath |-> <<"src", "types.ts">>]] :
           f \in Files }

UserOptions ==
  { [spec |-> undefined, allowAdditionalProperties |-> undefined] }
  \cup { [spec |-> JStr(s), allowAdditionalProperties |-> JBool(a)] :
           s \in JsonSchemaSpec \cup {"Draft_04"}, a \in BOOLEAN }

----------------------------------------------------------------------------
(* The state machine: a renderer is built, then called once *)

Init ==
  /\ options \in { jsonSchemaRenderer(u) : u \in UserOptions }
  /\ input \in Inputs
  /\ pc = "ready"
  /\ output = undefined
  /\ console = <<>>

\* nodeToDefinition(node, file, options, shallowOptions)
NodeToDefinition ==
  /\ pc = "ready"
  /\ input.op = "nodeToDefinition"
  /\ LET r == nodeToDefinition(input.node, input.file, options, input.shallowOptions)
     IN /\ output' = r.ret
        /\ console' = r.log
  /\ pc' = "done"
  /\ UNCHANGED <<options, input>>

\* renderer.transformer(file, { relativePath })
Transform ==
  /\ pc = "ready"
  /\ input.op = "astToJsonSchema"
  /\ LET r == astToJsonSchema(options, input.file, input.ctx)
     IN /\ output' = r.ret
        /\ console' = r.log
  /\ pc' = "done"
  /\ UNCHANGED <<options, input>>

Next == NodeToDefinition \/ Transform

Spec == Init /\ [][Next]_vars

----------------------------------------------------------------------------
(* What the claims speak of *)

Done(op) == pc = "done" /\ input.op = op

ValidSpec == options.spec \in JsonSchemaSpec

\* The definitions nodeToDefinition yields for the children of the node of
\* the call, each on its own.
ChildDefs ==
  [i \in 1..Len(input.node.children.v) |->
     nodeToDefinition(input.node.children.v[i], input.file, options, NoShallowOptions).ret]

\* The definition nodeToDefinition yields for the one child of an array or
\* dictionary node.
ChildDef == nodeToDefinition(input.node.children, input.file, options, NoShallowOptions).ret

StrictOrReference(def) == isStrictObject(def) \/ isReference(def)

AllChildrenStrictOrReference ==
  \A i \in 1..Len(ChildDefs) : StrictOrReference(ChildDefs[i])

UnevaluatedDialect == options.spec \in {"Draft_2019_09", "Draft_2020_12"}

\* nodeToDefinition has returned a definition for a node of the kind.
Rendered(kind) ==
  /\ Done("nodeToDefinition")
  /\ input.node.kind = kind
  /\ ~IsThrow(output)

RECURSIVE Sum(_)
Sum(ns) == IF ns = <<>> THEN 0 ELSE Head(ns) + Sum(Tail(ns))

RECURSIVE Narrowings(_)
\* The intersections of records and references that the mapper meets in a node.
Narrowings(node) ==
  CASE node.kind = "Record" ->
         Sum([i \in 1..Len(node.members.v) |->
                IF IGNORE_ENV \in node.members.v[i].ignoreIn THEN 0
                ELSE Narrowings(node.members.v[i].value)])
    [] node.kind \in {"Array", "Dictionary"} -> Narrowings(node.children)
    [] node.kind \in {"Tuple", "Union"} ->
         Sum([i \in 1..Len(node.children.v) |-> Narrowings(node.children.v[i])])
    [] node.kind = "Intersection" ->
         Sum([i \in 1..Len(node.children.v) |-> Narrowings(node.children.v[i])])
         + (IF \A i \in 1..Len(node.children.v) :
                 node.children.v[i].kind \in {"Record", "Reference"}
              THEN 1 ELSE 0)
    [] OTHER -> 0

RECURSIVE StatementNarrowings(_)
StatementNarrowings(s) ==
  CASE s.kind = "TypeDefinition" ->
         IF IGNORE_ENV \in s.ignoreIn THEN 0 ELSE Narrowings(s.definition)
    [] s.kind = "Group" ->
         IF IGNORE_ENV \in s.ignoreIn THEN 0
         ELSE Sum([i \in 1..Len(s.children.v) |-> StatementNarrowings(s.children.v[i].v)])
    [] OTHER -> 0

InputNarrowings ==
  IF input.op = "nodeToDefinition" THEN Narrowings(input.node)
  ELSE Sum([i \in 1..Len(input.file.children.v) |->
              StatementNarrowings(input.file.children.v[i])])

RECURSIVE Reaches(_, _)
\* A value outside the closed sets reaches a dispatch point of the mapper:
\* a node kind or token kind outside its set, or, when the dialect is not
\* one of the three, a switch over the dialect.
Reaches(node, valid) ==
  CASE node.kind = "Record" ->
         \E i \in 1..Len(node.members.v) :
           /\ IGNORE_ENV \notin node.members.v[i].ignoreIn
           /\ Reaches(node.members.v[i].value, valid)
    [] node.kind \in {"Array", "Dictionary"} -> Reaches(node.children, valid)
    [] node.kind = "Tuple" ->
         ~valid \/ \E i \in 1..Len(node.children.v) : Reaches(node.children.v[i], valid)
    [] node.kind = "Union" ->
         \E i \in 1..Len(node.children.v) : Reaches(node.children.v[i], valid)
    [] node.kind = "Intersection" ->
         \/ \E i \in 1..Len(node.children.v) : Reaches(node.children.v[i], valid)
         \/ /\ ~valid
            /\ \A i \in 1..Len(node.children.v) :
                 node.children.v[i].kind \in {"Record", "Reference"}
    [] node.kind = "Literal" -> FALSE
    [] node.kind = "Reference" -> ~valid
    [] node.kind = "Token" -> node.token \notin {"Number", "String", "Boolean"}
    [] OTHER -> TRUE

RECURSIVE StatementReaches(_, _)
StatementReaches(s, valid) ==
  CASE s.kind = "TypeDefinition" ->
         IGNORE_ENV \notin s.ignoreIn /\ Reaches(s.definition, valid)
    [] s.kind = "ExportAssignment" -> FALSE
    [] s.kind = "Enumeration" -> FALSE
    [] s.kind = "Group" ->
         /\ IGNORE_ENV \notin s.ignoreIn
         /\ \E i \in 1..Len(s.children.v) : StatementReaches(s.children.v[i].v, valid)
    [] OTHER -> TRUE

FileReaches(file, valid) ==
  ~valid \/ \E i \in 1..Len(file.children.v) : StatementReaches(file.children.v[i], valid)

----------------------------------------------------------------------------
(* C1 *)

\* C1, as stated: an intersection of strict objects and references, under a
\* dialect with unevaluatedProperties, has unevaluatedProperties equal to the
\* negation of the allowAdditionalProperties option.
C1_UnevaluatedIsNegation ==
  (Rendered("Intersection") /\ UnevaluatedDialect /\ AllChildrenStrictOrReference)
    => Get(output, "unevaluatedProperties") = JBool(~options.allowAdditionalProperties)

\* C1, amended: an intersection of strict objects and references, under
\* Draft_2019_09 or Draft_2020_12, has unevaluatedProperties equal to the
\* allowAdditionalProperties option itself: false when the option is false,
\* true when it is true.
C1_UnevaluatedIsOption ==
  (Rendered("Intersection") /\ UnevaluatedDialect /\ AllChildrenStrictOrReference)
    => /\ In("unevaluatedProperties", output)
       /\ Get(output, "unevaluatedProperties") = JBool(options.allowAdditionalProperties)

C1_Witness ==
  /\ Rendered("Intersection")
  /\ UnevaluatedDialect
  /\ AllChildrenStrictOrReference
  /\ Len(ChildDefs) = 2
  /\ isStrictObject(ChildDefs[1])
  /\ options.allowAdditionalProperties
  /\ Get(output, "unevaluatedProperties") = JBool(TRUE)

----------------------------------------------------------------------------
(* C2 *)

\* C2: an intersection is upgraded exactly when every child definition is a
\* strict object or a reference and the dialect is Draft_2019_09 or
\* Draft_2020_12. Upgraded, it has type "object", allOf holds one definition
\* per child in the children's order, and no strict object in allOf has a
\* boolean additionalProperties. Otherwise it has neither type nor
\* unevaluatedProperties and allOf holds the children's own definitions.
C2_UpgradeExactlyWhen ==
  Rendered("Intersection") =>
    LET allOf == Get(output, "allOf")
    IN IF AllChildrenStrictOrReference /\ UnevaluatedDialect
         THEN /\ Get(output, "type") = JStr("object")
              /\ In("unevaluatedProperties", output)
              /\ allOf.t = "array"
              /\ Len(allOf.v) = Len(input.node.children.v)
              /\ \A i \in 1..Len(allOf.v) :
                   /\ allOf.v[i] = Delete(ChildDefs[i], "additionalProperties")
                   /\ isStrictObject(allOf.v[i]) = isStrictObject(ChildDefs[i])
                   /\ isStrictObject(allOf.v[i]) =>
                        Get(allOf.v[i], "additionalProperties").t # "boolean"
         ELSE /\ ~In("type", output)
              /\ ~In("unevaluatedProperties", output)
              /\ allOf = JArr(ChildDefs)

C2_Witness ==
  /\ Rendered("Intersection")
  /\ options.spec = "Draft_2019_09"
  /\ Len(ChildDefs) = 2
  /\ isStrictObject(ChildDefs[1])
  /\ isReference(ChildDefs[2])
  /\ In("additionalProperties", ChildDefs[1])
  /\ ~In("additionalProperties", Get(output, "allOf").v[1])
  /\ Get(output, "type") = JStr("object")

----------------------------------------------------------------------------
(* C3 *)

\* C3: under Draft_07 an intersection of strict objects is a plain allOf whose
\* children keep additionalProperties, and a warning is written; the warning
\* does not end the render, which yields the document; a warning is written
\* only for an intersection of strict objects and references under a dialect
\* without unevaluatedProperties, and never under Draft_2019_09 or
\* Draft_2020_12.
C3_WarningUnderOldestDialect ==
  /\ ( /\ Rendered("Intersection")
       /\ options.spec = "Draft_07"
       /\ \A i \in 1..Len(ChildDefs) : isStrictObject(ChildDefs[i]) )
     => /\ \A i \in 1..Len(output.v) :
             output.v[i].k \in {"title", "description", "allOf", "default", "readOnly"}
        /\ Get(output, "allOf") = JArr(ChildDefs)
        /\ \A i \in 1..Len(ChildDefs) :
             Get(Get(output, "allOf").v[i], "additionalProperties")
               = JBool(options.allowAdditionalProperties)
        /\ console # <<>>
        /\ console[Len(console)] = WARNING
  /\ (pc = "done" /\ ~IsThrow(output))
     => /\ Len(console) = (IF options.spec = "Draft_07" THEN InputNarrowings ELSE 0)
        /\ \A i \in 1..Len(console) : console[i] = WARNING
  /\ (pc = "done" /\ options.spec # "Draft_07") => console = <<>>
  /\ (pc = "done" /\ InputNarrowings = 0) => console = <<>>
  /\ ( /\ Done("astToJsonSchema")
       /\ options.spec = "Draft_07"
       /\ ~FileReaches(input.file, TRUE) )
     => /\ output.t = "object"
        /\ Get(output, "definitions").t = "object"

C3_Witness ==
  /\ Done("astToJsonSchema")
  /\ options.spec = "Draft_07"
  /\ console = <<WARNING>>
  /\ output.t = "object"
  /\ LET def == Get(Get(output, "definitions"), "T1")
     IN /\ In("allOf", def)
        /\ ~In("type", def)
        /\ Len(Get(def, "allOf").v) = 2
        /\ \A i \in 1..2 :
             /\ isStrictObject(Get(def, "allOf").v[i])
             /\ In("additionalProperties", Get(def, "allOf").v[i])

----------------------------------------------------------------------------
(* C4 *)

\* C4: a tuple of n children is an array with minItems = maxItems = n; under
\* Draft_07 and Draft_2019_09 the children's definitions are in items, in
\* order, with additionalItems false and no prefixItems; under Draft_2020_12
\* they are in prefixItems, in order, with items false and no additionalItems.
C4_TupleShape ==
  (Rendered("Tuple") /\ ValidSpec) =>
    LET n == Len(input.node.children.v)
    IN /\ Get(output, "type") = JStr("array")
       /\ Get(output, "minItems") = JNum(n)
       /\ Get(output, "maxItems") = JNum(n)
       /\ IF options.spec = "Draft_2020_12"
            THEN /\ Get(output, "prefixItems") = JArr(ChildDefs)
                 /\ Get(output, "items") = JBool(FALSE)
                 /\ ~In("additionalItems", output)
            ELSE /\ Get(output, "items") = JArr(ChildDefs)
                 /\ Get(output, "additionalItems") = JBool(FALSE)
                 /\ ~In("prefixItems", output)

C4_Witness ==
  /\ Rendered("Tuple")
  /\ options.spec = "Draft_2020_12"
  /\ Len(input.node.children.v) = 2
  /\ ChildDefs[1] # ChildDefs[2]
  /\ Get(output, "prefixItems") = JArr(ChildDefs)
  /\ Get(output, "maxItems") = JNum(2)

----------------------------------------------------------------------------
(* C5 *)

\* C5: a dictionary with a key pattern has patternProperties mapping exactly
\* that pattern to the child's definition, and additionalProperties equal to
\* the boolean option; a dictionary without one has additionalProperties
\* equal to the child's definition and neither patternProperties nor
\* properties.
C5_DictionaryShape ==
  Rendered("Dictionary") =>
    IF input.node.pattern # undefined
      THEN /\ Get(output, "patternProperties")
                = JObj(<< Entry(input.node.pattern.v, ChildDef) >>)
           /\ Get(output, "additionalProperties") = JBool(options.allowAdditionalProperties)
      ELSE /\ Get(output, "additionalProperties") = ChildDef
           /\ ~In("patternProperties", output)
           /\ ~In("properties", output)

C5_Witness ==
  /\ Rendered("Dictionary")
  /\ input.node.pattern # undefined
  /\ isStrictObject(ChildDef)
  /\ Get(output, "additionalProperties") = JBool(TRUE)
  /\ In("patternProperties", output)

----------------------------------------------------------------------------
(* C6 *)

DefsKeyword == IF options.spec = "Draft_07" THEN "definitions" ELSE "$defs"

OtherKeyword == IF options.spec = "Draft_07" THEN "$defs" ELSE "definitions"

\* transformer has returned the document.
Document == Done("astToJsonSchema") /\ ValidSpec /\ ~IsThrow(output)

MainTag == Tag(input.file.jsDoc, "main")

HasReferenceDefaultExport ==
  \E i \in 1..Len(input.file.children.v) :
    /\ IsDefaultExport(input.file.children.v[i])
    /\ input.file.children.v[i].expression.kind = "Reference"

\* The expression of the file's default export.
DefaultExpression ==
  LET c == input.file.children.v
  IN c[CHOOSE i \in 1..Len(c) : IsDefaultExport(c[i])].expression

\* <relative external path or empty>#/<definitions keyword>/
RefPrefix(reference) ==
  (IF reference.externalFile = "" THEN "" ELSE reference.externalFile \o ".schema.json")
  \o "#/" \o DefsKeyword \o "/"

\* C6: the top-level $ref is #/<definitions keyword>/<main tag> when the file
\* has a main tag, whatever it exports; else a reference to the target of the
\* default export when that export's expression is a reference; else the
\* document has no $ref key. The keyword is definitions under Draft_07 and
\* $defs under the later dialects, and is the key of the definitions
\* container.
C6_MainRefPriority ==
  Document =>
    /\ In(DefsKeyword, output)
    /\ ~In(OtherKeyword, output)
    /\ IF MainTag # undefined
         THEN Get(output, "$ref") = JStr("#/" \o DefsKeyword \o "/" \o MainTag.v)
         ELSE IF HasReferenceDefaultExport
           THEN LET R == DefaultExpression
                IN Get(output, "$ref")
                     \in { JStr(RefPrefix(R) \o R.name) }
                         \cup (IF R.importAlias = undefined THEN {}
                               ELSE { JStr(RefPrefix(R) \o R.importAlias.v) })
           ELSE ~In("$ref", output)

C6_Witness ==
  /\ Document
  /\ MainTag # undefined
  /\ HasReferenceDefaultExport
  /\ options.spec = "Draft_2019_09"
  /\ Get(output, "$ref") = JStr("#/$defs/T1")
  /\ In("$defs", output)

----------------------------------------------------------------------------
(* C7 *)

\* C7: without a main tag, the top-level $ref for a default export whose
\* expression is a reference R is the $ref nodeToDefinition yields for R in
\* the same file and dialect, the import alias included.
C7_MainRefIsReferenceCase ==
  (Document /\ MainTag = undefined /\ HasReferenceDefaultExport) =>
    Get(output, "$ref")
      = Get(nodeToDefinition(DefaultExpression, input.file, options, NoShallowOptions).ret,
            "$ref")

----------------------------------------------------------------------------
(* C8 *)

\* The statement is neither ignored for "json-schema" nor an export assignment.
Contributes(s) ==
  /\ s.kind \in {"TypeDefinition", "Enumeration", "Group"}
  /\ "json-schema" \notin s.ignoreIn

RECURSIVE EntryAsExpected(_, _)
\* The serialized entry of a statement: a group's map has the keys of its
\* contributing statements, in order, each entry as expected in turn.
EntryAsExpected(s, entry) ==
  /\ entry = JSONstringify(statementToDefinition(s, input.file, options, NoShallowOptions).ret)
  /\ s.kind = "Group" =>
       LET kept == SelectSeq(s.children.v, LAMBDA e : Contributes(e.v))
       IN /\ entry.t = "object"
          /\ Keys(entry) = [i \in 1..Len(kept) |-> kept[i].k]
          /\ \A i \in 1..Len(kept) : EntryAsExpected(kept[i].v, Get(entry, kept[i].k))

\* C8: in the definitions container an ignored statement and an export
\* assignment have no entry; every other statement has one entry under its
\* name, and the entries are in the statements' order. The same holds in the
\* serialized map of a group.
C8_IgnoredContributeNothing ==
  Document =>
    LET kept == SelectSeq(input.file.children.v, Contributes)
        container == Get(output, DefsKeyword)
    IN /\ container.t = "object"
       /\ Keys(container) = [i \in 1..Len(kept) |-> kept[i].name]
       /\ \A i \in 1..Len(kept) : EntryAsExpected(kept[i], Get(container, kept[i].name))

C8_Witness ==
  /\ Document
  /\ Len(input.file.children.v) = 2
  /\ input.file.children.v[1].kind = "TypeDefinition"
  /\ "json-schema" \in input.file.children.v[1].ignoreIn
  /\ input.file.children.v[2].kind = "Group"
  /\ Contributes(input.file.children.v[2])
  /\ Keys(Get(output, DefsKeyword)) = << input.file.children.v[2].name >>
  /\ Len(input.file.children.v[2].children.v) = 2
  /\ Keys(Get(Get(output, DefsKeyword), input.file.children.v[2].name)) = <<"X">>

----------------------------------------------------------------------------
(* C9 *)

\* C9: over the closed sets of node kinds, token kinds and dialects
\* nodeToDefinition yields a definition, never undefined; a node kind, token
\* kind, statement kind or dialect outside its set that reaches a dispatch
\* point ends the call with an error, and the transform then returns no
\* document at all.
C9_TotalOrFatal ==
  /\ Done("nodeToDefinition") =>
       IF Reaches(input.node, ValidSpec)
         THEN IsThrow(output)
         ELSE output.t = "object"
  /\ Done("astToJsonSchema") =>
       IF FileReaches(input.file, ValidSpec)
         THEN IsThrow(output)
         ELSE /\ output.t = "object"
              /\ In("$schema", output)
              /\ Get(output, DefsKeyword).t = "object"

C9_Witness ==
  /\ Done("astToJsonSchema")
  /\ ValidSpec
  /\ Len(input.file.children.v) = 2
  /\ Contributes(input.file.children.v[1])
  /\ ~StatementReaches(input.file.children.v[1], TRUE)
  /\ StatementReaches(input.file.children.v[2], TRUE)
  /\ IsThrow(output)

----------------------------------------------------------------------------
(* C10 *)

RECURSIVE ReadOnlyAsExpected(_, _, _)
\* The definition of the node has readOnly: true exactly when `ro`, and its
\* parts have it exactly when they are values of read-only record members.
ReadOnlyAsExpected(node, def, ro) ==
  /\ In("readOnly", def) = ro
  /\ ro => Get(def, "readOnly") = JBool(TRUE)
  /\ CASE node.kind = "Record" ->
            \A i \in 1..Len(node.members.v) :
              LET m == node.members.v[i]
              IN "json-schema" \notin m.ignoreIn =>
                   ReadOnlyAsExpected(m.value, Get(Get(def, "properties"), m.identifier),
                                      m.isReadOnly)
       [] node.kind = "Dictionary" ->
            ReadOnlyAsExpected(node.children,
              IF node.pattern # undefined
                THEN Get(Get(def, "patternProperties"), node.pattern.v)
                ELSE Get(def, "additionalProperties"),
              FALSE)
       [] node.kind = "Array" -> ReadOnlyAsExpected(node.children, Get(def, "items"), FALSE)
       [] node.kind = "Tuple" ->
            LET slots == IF In("prefixItems", def) THEN Get(def, "prefixItems")
                         ELSE Get(def, "items")
            IN \A i \in 1..Len(node.children.v) :
                 ReadOnlyAsExpected(node.children.v[i], slots.v[i], FALSE)
       [] node.kind = "Union" ->
            \A i \in 1..Len(node.children.v) :
              ReadOnlyAsExpected(node.children.v[i], Get(def, "oneOf").v[i], FALSE)
       [] node.kind = "Intersection" ->
            \A i \in 1..Len(node.children.v) :
              ReadOnlyAsExpected(node.children.v[i], Get(def, "allOf").v[i], FALSE)
       [] OTHER -> TRUE

RECURSIVE StatementReadOnlyAsExpected(_, _)
StatementReadOnlyAsExpected(s, entry) ==
  CASE s.kind = "TypeDefinition" -> ReadOnlyAsExpected(s.definition, entry, FALSE)
    [] s.kind = "Enumeration" -> ~In("readOnly", entry)
    [] s.kind = "Group" ->
         /\ ~In("readOnly", entry)
         /\ \A i \in 1..Len(s.children.v) :
              Contributes(s.children.v[i].v) =>
                StatementReadOnlyAsExpected(s.children.v[i].v, Get(entry, s.children.v[i].k))
    [] OTHER -> TRUE

\* C10: a definition has readOnly: true if and only if its node is the value
\* of a record member whose isReadOnly is set; the node's own children do not
\* inherit it, and the definition of a top-level statement never has it.
C10_ReadOnlyOneLevel ==
  /\ (Done("nodeToDefinition") /\ ~IsThrow(output)) =>
       ReadOnlyAsExpected(input.node, output, Truthy(input.shallowOptions.isReadOnly))
  /\ Document =>
       \A i \in 1..Len(input.file.children.v) :
         LET s == input.file.children.v[i]
         IN Contributes(s) =>
              StatementReadOnlyAsExpected(s, Get(Get(output, DefsKeyword), s.name))

\* A read-only member whose value is an array: the array has readOnly, its
\* items have not.
C10_Witness ==
  /\ Rendered("Record")
  /\ Len(input.node.members.v) >= 1
  /\ input.node.members.v[1].isReadOnly
  /\ input.node.members.v[1].value.kind = "Array"
  /\ LET def == Get(Get(output, "properties"), "a")
     IN /\ Get(def, "readOnly") = JBool(TRUE)
        /\ ~In("readOnly", Get(def, "items"))
  /\ ~In("readOnly", output)

----------------------------------------------------------------------------
(* C11 *)

\* C11: in the strict object made from a record, every identifier listed in
\* required is a key of properties, whatever the members' isRequired flags
\* and ignore directives.
C11_RequiredAreDeclared ==
  Rendered("Record") =>
    \A i \in 1..Len(Get(output, "required").v) :
      In(Get(output, "required").v[i].v, Get(output, "properties"))

====
